---- MODULE Spec2Model ----
(***************************************************************************)
(* Exam scheduler: the V5 engine (src/unnamed/part_000: pinned Gen-Ed      *)
(* blocks, MATH/ARCH priority, 6-unit double slots, individual retry) and  *)
(* the V4 engine (src/exam-scheduler-algorithm.ts: size-sorted groups with *)
(* batch splitting, individual retry).                                     *)
(*                                                                         *)
(* Strings the code inspects (subjectId, dept, course, room) are sequences *)
(* of one-character strings, so toUpperCase, trim, startsWith, includes    *)
(* and the room regex are computed.  Strings the code only compares or     *)
(* concatenates (code, slot labels) are TLA+ strings.  An Exam object      *)
(* reference is the index of the exam in the input list.                   *)
(***************************************************************************)
EXTENDS Integers, Sequences, FiniteSets, TLC

VARIABLES
  variant,          \* "v5" (part_000) or "v4" (exam-scheduler-algorithm.ts)
  pc,               \* position inside generateExamSchedule
  exams,            \* input: the exam list
  rooms,            \* input: the room list
  numDays,          \* input: the day count
  eligible,         \* indices of the exams that passed the SAS filter
  conflictMatrix,   \* courseYear -> subject -> set of subjects
  roomUsage,        \* state.roomUsage: dayKey -> slotKey -> set of rooms
  subjectScheduled, \* state.subjectScheduled: subject -> [day, slot]
  scheduled,        \* the output map: key -> ScheduledExam
  queue,            \* groups (or, in the individual pass, exams) still to process
  cursor,           \* scan position of the group at the head of the queue
  batchStart,       \* v4: the loop index i of tryScheduleGroupAnywhere's batch loop
  allScheduled,     \* v4: tryScheduleGroupAnywhere's allScheduled
  unscheduled,      \* v4: the unscheduled list
  failed,           \* phase1.failed ++ phase2.failed ++ phase3.failed so far
  totalScheduled,   \* the accumulated scheduled count
  last              \* the most recent call and what it returned (observation)

vars == <<variant, pc, exams, rooms, numDays, eligible, conflictMatrix, roomUsage,
          subjectScheduled, scheduled, queue, cursor, batchStart, allScheduled,
          unscheduled, failed, totalScheduled, last>>

-----------------------------------------------------------------------------
(* String primitives *)

LowerAlpha == <<"a","b","c","d","e","f","g","h","i","j","k","l","m",
                "n","o","p","q","r","s","t","u","v","w","x","y","z">>
UpperAlpha == <<"A","B","C","D","E","F","G","H","I","J","K","L","M",
                "N","O","P","Q","R","S","T","U","V","W","X","Y","Z">>

UpperSet == {UpperAlpha[i] : i \in 1..Len(UpperAlpha)}
UpperOf == [c \in {LowerAlpha[i] : i \in 1..Len(LowerAlpha)} |->
              UpperAlpha[CHOOSE i \in 1..Len(LowerAlpha) : LowerAlpha[i] = c]]

IsUpperChar(c) == c \in UpperSet

UpperChar(c) == IF c \in DOMAIN UpperOf THEN UpperOf[c] ELSE c

toUpperCase(s) == [i \in 1..Len(s) |-> UpperChar(s[i])]

RECURSIVE trimStart(_)
trimStart(s) == IF s # <<>> /\ Head(s) = " " THEN trimStart(Tail(s)) ELSE s

RECURSIVE trimEnd(_)
trimEnd(s) ==
  IF s # <<>> /\ s[Len(s)] = " " THEN trimEnd(SubSeq(s, 1, Len(s) - 1)) ELSE s

trim(s) == trimEnd(trimStart(s))

startsWith(s, p) == Len(s) >= Len(p) /\ SubSeq(s, 1, Len(p)) = p

includes(s, p) == \E i \in 0..(Len(s) - Len(p)) : SubSeq(s, i + 1, i + Len(p)) = p

\* decimal digits of a small non-negative number, as in a template string
Digits == <<"0","1","2","3","4","5","6","7","8","9">>
RECURSIVE numStr(_)
numStr(n) == IF n < 10 THEN <<Digits[n + 1]>> ELSE numStr(n \div 10) \o <<Digits[(n % 10) + 1]>>

Range(s) == {s[i] : i \in 1..Len(s)}

\* Map.set / object property assignment
Put(m, k, v) == [x \in DOMAIN m \cup {k} |-> IF x = k THEN v ELSE m[x]]
EmptyMap == <<>>

-----------------------------------------------------------------------------
(* Constants and configuration *)

TIME_SLOTS == <<"7:30-9:00", "9:00-10:30", "10:30-12:00", "12:00-1:30",
                "1:30-3:00", "3:00-4:30", "4:30-6:00", "6:00-7:30">>

\* slot indices are 0-based in the code
SlotKey(slot) == TIME_SLOTS[slot + 1]
DayKey(day) == <<"Day ", day + 1>>

ETHC == <<"E","T","H","C">>
ENGL == <<"E","N","G","L">>
PHED == <<"P","H","E","D">>
CFED == <<"C","F","E","D">>
CONW == <<"C","O","N","W">>
LANG == <<"L","A","N","G">>
JAPN == <<"J","A","P","N">>
CHIN == <<"C","H","I","N">>
SPAN == <<"S","P","A","N">>
LITR == <<"L","I","T","R">>
RESM == <<"R","E","S","M">>
MATH == <<"M","A","T","H">>
ARCH == <<"A","R","C","H">>
SACE == <<"S","A","C","E">>
SECAP == <<"S","E","C","A","P">>
SABH == <<"S","A","B","H">>
SHAS == <<"S","H","A","S">>
SAS == <<"S","A","S">>

GEN_ED_TIME_BLOCKS(genEdType) ==
  CASE genEdType = ETHC -> << [day |-> 0, slot |-> 0, capacity |-> 14] >>
    [] genEdType = ENGL -> << [day |-> 0, slot |-> 2, capacity |-> 23],
                              [day |-> 2, slot |-> 0, capacity |-> 34] >>
    [] genEdType = PHED -> << [day |-> 0, slot |-> 3, capacity |-> 27],
                              [day |-> 1, slot |-> 0, capacity |-> 46] >>
    [] genEdType = CFED -> << [day |-> 0, slot |-> 4, capacity |-> 46],
                              [day |-> 1, slot |-> 1, capacity |-> 36],
                              [day |-> 1, slot |-> 2, capacity |-> 44] >>
    [] genEdType = CONW -> << [day |-> 1, slot |-> 5, capacity |-> 33] >>
    [] genEdType = LANG -> << [day |-> 2, slot |-> 3, capacity |-> 15] >>
    [] genEdType = LITR -> << [day |-> 2, slot |-> 4, capacity |-> 9] >>
    [] OTHER -> <<>>

PRIORITY_LEVELS == [GEN_ED |-> 100000, MATH |-> 50000, ARCH |-> 40000, MAJOR |-> 10000]

-----------------------------------------------------------------------------
(* Helper functions (part_000) *)

NoType == <<>>   \* getGenEdType's null

getGenEdType(subjectId) ==
  IF subjectId = <<>> THEN NoType
  ELSE LET upper == toUpperCase(subjectId) IN
    IF startsWith(upper, ETHC) THEN ETHC
    ELSE IF startsWith(upper, ENGL) THEN ENGL
    ELSE IF startsWith(upper, PHED) THEN PHED
    ELSE IF startsWith(upper, CFED) THEN CFED
    ELSE IF startsWith(upper, CONW) THEN CONW
    ELSE IF startsWith(upper, LANG) \/ startsWith(upper, JAPN)
            \/ startsWith(upper, CHIN) \/ startsWith(upper, SPAN) THEN LANG
    ELSE IF startsWith(upper, LITR) THEN LITR
    ELSE NoType

isGenEdSubject(subjectId) == getGenEdType(subjectId) # NoType

isMathSubject(exam) ==
  startsWith(toUpperCase(exam.subjectId), MATH) /\ toUpperCase(exam.dept) = SACE

isArchSubject(subjectId) == includes(toUpperCase(subjectId), ARCH)

calculatePriority(exam) ==
  IF isGenEdSubject(exam.subjectId) THEN PRIORITY_LEVELS.GEN_ED
  ELSE IF isMathSubject(exam) THEN PRIORITY_LEVELS.MATH
  ELSE IF isArchSubject(exam.subjectId) THEN PRIORITY_LEVELS.ARCH
  ELSE PRIORITY_LEVELS.MAJOR

\* room.match(/^([A-Z]+)-/): the leading run of upper-case letters, if it is
\* not empty and a '-' follows it; '' otherwise
RECURSIVE UpperRun(_)
UpperRun(s) ==
  IF s # <<>> /\ IsUpperChar(Head(s)) THEN <<Head(s)>> \o UpperRun(Tail(s)) ELSE <<>>

getBuildingFromRoom(room) ==
  LET run == UpperRun(room) IN
    IF run # <<>> /\ Len(room) > Len(run) /\ room[Len(run) + 1] = "-" THEN run ELSE <<>>

getAvailableBuildings(dept, subjectId) ==
  IF isArchSubject(subjectId) THEN << <<"C">>, <<"K">> >>
  ELSE LET deptUpper == toUpperCase(dept) IN
    IF includes(deptUpper, SECAP) THEN << <<"A">>, <<"J">>, <<"B">> >>
    ELSE IF includes(deptUpper, SABH) THEN << <<"A">> >>
    ELSE IF includes(deptUpper, SACE) THEN << <<"N">>, <<"K">>, <<"C">> >>
    ELSE IF includes(deptUpper, SHAS) THEN << <<"L">>, <<"M">>, <<"N">>, <<"K">>, <<"J">> >>
    ELSE << <<"A">>, <<"N">>, <<"K">>, <<"L">>, <<"M">>, <<"J">>, <<"B">>, <<"C">> >>

is6UnitSubject(exam) == exam.lec = 6

-----------------------------------------------------------------------------
(* Conflict detection *)

HasCourseYear(exam) == exam.course # <<>> /\ exam.yearLevel # 0

CourseYearKey(exam) == trim(exam.course) \o <<"-">> \o numStr(exam.yearLevel)

SubjKey(exam) == trim(toUpperCase(exam.subjectId))

\* exs: the sequence of eligible exams
\* a matrix built from all sections, those without course or year level too
buildConflictMatrixAll(exs) ==
  LET grouped == exs
      keys == {CourseYearKey(grouped[i]) : i \in 1..Len(grouped)}
      groupExams(k) == SelectSeq(grouped, LAMBDA e : CourseYearKey(e) = k)
  IN [k \in keys |->
        LET g == groupExams(k) IN
          [subj1 \in {SubjKey(g[i]) : i \in 1..Len(g)} |->
             {SubjKey(g[j]) : j \in
                {j \in 1..Len(g) :
                   \E i \in 1..Len(g) : /\ SubjKey(g[i]) = subj1
                                        /\ g[i].code # g[j].code
                                        /\ subj1 # SubjKey(g[j])}}]]

\* a matrix built without the test subj1 !== subj2
buildConflictMatrixNoSubjectTest(exs) ==
  LET grouped == SelectSeq(exs, HasCourseYear)
      keys == {CourseYearKey(grouped[i]) : i \in 1..Len(grouped)}
      groupExams(k) == SelectSeq(grouped, LAMBDA e : CourseYearKey(e) = k)
  IN [k \in keys |->
        LET g == groupExams(k) IN
          [subj1 \in {SubjKey(g[i]) : i \in 1..Len(g)} |->
             {SubjKey(g[j]) : j \in
                {j \in 1..Len(g) :
                   \E i \in 1..Len(g) : /\ SubjKey(g[i]) = subj1
                                        /\ g[i].code # g[j].code}}]]

buildConflictMatrix(exs) ==
  LET grouped == SelectSeq(exs, HasCourseYear)
      keys == {CourseYearKey(grouped[i]) : i \in 1..Len(grouped)}
      groupExams(k) == SelectSeq(grouped, LAMBDA e : CourseYearKey(e) = k)
  IN [k \in keys |->
        LET g == groupExams(k) IN
          [subj1 \in {SubjKey(g[i]) : i \in 1..Len(g)} |->
             {SubjKey(g[j]) : j \in
                {j \in 1..Len(g) :
                   \E i \in 1..Len(g) : /\ SubjKey(g[i]) = subj1
                                        /\ g[i].code # g[j].code
                                        /\ subj1 # SubjKey(g[j])}}]]

\* a conflict check that never reports a conflict
hasConflictIgnored(exam, day, slot, led, matrix) == FALSE

\* led: [roomUsage, subjectScheduled, scheduled], the state and the output map
hasConflict(exam, day, slot, led, matrix) ==
  IF ~HasCourseYear(exam) THEN FALSE
  ELSE LET courseYear == CourseYearKey(exam)
           dayKey == DayKey(day)
           slotKey == SlotKey(slot)
           subjId == SubjKey(exam)
       IN IF courseYear \notin DOMAIN matrix \/ subjId \notin DOMAIN matrix[courseYear]
          THEN FALSE
          ELSE \E conflictSubj \in matrix[courseYear][subjId] :
                 /\ conflictSubj \in DOMAIN led.subjectScheduled
                 /\ led.subjectScheduled[conflictSubj].day = dayKey
                 /\ led.subjectScheduled[conflictSubj].slot = slotKey

-----------------------------------------------------------------------------
(* Room management *)

OccupiedAt(led, dayKey, slotKey) ==
  IF dayKey \in DOMAIN led.roomUsage /\ slotKey \in DOMAIN led.roomUsage[dayKey]
  THEN led.roomUsage[dayKey][slotKey] ELSE {}

\* getAvailableRooms without the removal of the occupied rooms
getAvailableRoomsNoOccupancy(exam, day, slot, allRooms, led, requireConsecutive) ==
  LET allowedBuildings == getAvailableBuildings(exam.dept, exam.subjectId) IN
    SelectSeq(allRooms, LAMBDA room : getBuildingFromRoom(room) \in Range(allowedBuildings))

\* getAvailableRooms without the look at the following slot
getAvailableRoomsOneSlot(exam, day, slot, allRooms, led, requireConsecutive) ==
  LET dayKey == DayKey(day)
      slotKey == SlotKey(slot)
      allowedBuildings == getAvailableBuildings(exam.dept, exam.subjectId)
      available == SelectSeq(allRooms,
                     LAMBDA room : getBuildingFromRoom(room) \in Range(allowedBuildings))
      occupied == OccupiedAt(led, dayKey, slotKey)
  IN SelectSeq(available, LAMBDA room : room \notin occupied)

getAvailableRooms(exam, day, slot, allRooms, led, requireConsecutive) ==
  LET dayKey == DayKey(day)
      slotKey == SlotKey(slot)
      allowedBuildings == getAvailableBuildings(exam.dept, exam.subjectId)
      available == SelectSeq(allRooms,
                     LAMBDA room : getBuildingFromRoom(room) \in Range(allowedBuildings))
      occupied == OccupiedAt(led, dayKey, slotKey) \cup
                  (IF requireConsecutive /\ slot < Len(TIME_SLOTS) - 1
                   THEN OccupiedAt(led, dayKey, SlotKey(slot + 1)) ELSE {})
  IN SelectSeq(available, LAMBDA room : room \notin occupied)


-----------------------------------------------------------------------------
(* Scheduling operations (part_000) *)

ScheduledExamOf(exam, dayKey, slotKey, room, priority) ==
  [CODE |-> exam.code, SUBJECT_ID |-> exam.subjectId, COURSE |-> exam.course,
   YEAR_LEVEL |-> exam.yearLevel, DEPT |-> exam.dept, DAY |-> dayKey, SLOT |-> slotKey,
   ROOM |-> room, UNITS |-> exam.lec, PRIORITY |-> priority]

\* the key of the output map: exam.code + '-' + slotKey
ScheduledKey(exam, slotKey) == <<exam.code, "-", slotKey>>

AddRoom(roomUsage_, dayKey, slotKey, room) ==
  LET withDay == IF dayKey \in DOMAIN roomUsage_ THEN roomUsage_
                 ELSE Put(roomUsage_, dayKey, EmptyMap)
      withSlot == IF slotKey \in DOMAIN withDay[dayKey] THEN withDay
                  ELSE Put(withDay, dayKey, Put(withDay[dayKey], slotKey, {}))
  IN Put(withSlot, dayKey,
         Put(withSlot[dayKey], slotKey, withSlot[dayKey][slotKey] \cup {room}))

\* scheduleExam writing the new entry into an emptied output map
scheduleExamReplacing(exam, day, slot, room, led, isSecondSlotOf6Unit) ==
  LET dayKey == DayKey(day)
      slotKey == SlotKey(slot)
      scheduledExam == ScheduledExamOf(exam, dayKey, slotKey, room, calculatePriority(exam))
  IN [roomUsage |-> AddRoom(led.roomUsage, dayKey, slotKey, room),
      subjectScheduled |->
        IF ~isSecondSlotOf6Unit
        THEN Put(led.subjectScheduled, SubjKey(exam), [day |-> dayKey, slot |-> slotKey])
        ELSE led.subjectScheduled,
      scheduled |-> Put(EmptyMap, ScheduledKey(exam, slotKey), scheduledExam)]

\* a scheduleExam that keeps the first placement of a subject
scheduleExamKeepingFirst(exam, day, slot, room, led, isSecondSlotOf6Unit) ==
  LET dayKey == DayKey(day)
      slotKey == SlotKey(slot)
      scheduledExam == ScheduledExamOf(exam, dayKey, slotKey, room, calculatePriority(exam))
  IN [roomUsage |-> AddRoom(led.roomUsage, dayKey, slotKey, room),
      subjectScheduled |->
        IF ~isSecondSlotOf6Unit /\ SubjKey(exam) \notin DOMAIN led.subjectScheduled
        THEN Put(led.subjectScheduled, SubjKey(exam), [day |-> dayKey, slot |-> slotKey])
        ELSE led.subjectScheduled,
      scheduled |-> Put(led.scheduled, ScheduledKey(exam, slotKey), scheduledExam)]

scheduleExam(exam, day, slot, room, led, isSecondSlotOf6Unit) ==
  LET dayKey == DayKey(day)
      slotKey == SlotKey(slot)
      scheduledExam == ScheduledExamOf(exam, dayKey, slotKey, room, calculatePriority(exam))
  IN [roomUsage |-> AddRoom(led.roomUsage, dayKey, slotKey, room),
      subjectScheduled |->
        IF ~isSecondSlotOf6Unit
        THEN Put(led.subjectScheduled, SubjKey(exam), [day |-> dayKey, slot |-> slotKey])
        ELSE led.subjectScheduled,
      scheduled |-> Put(led.scheduled, ScheduledKey(exam, slotKey), scheduledExam)]

\* a schedule6UnitExam whose second commit is an ordinary commit
schedule6UnitExamRecordingSecond(exam, day, slot, room, led) ==
  IF slot >= Len(TIME_SLOTS) - 1 THEN [ret |-> FALSE, led |-> led]
  ELSE [ret |-> TRUE,
        led |-> scheduleExam(exam, day, slot + 1, room,
                             scheduleExam(exam, day, slot, room, led, FALSE), FALSE)]

schedule6UnitExam(exam, day, slot, room, led) ==
  IF slot >= Len(TIME_SLOTS) - 1 THEN [ret |-> FALSE, led |-> led]
  ELSE [ret |-> TRUE,
        led |-> scheduleExam(exam, day, slot + 1, room,
                             scheduleExam(exam, day, slot, room, led, FALSE), TRUE)]

-----------------------------------------------------------------------------
(* Group scheduling (part_000) *)

\* first occurrences, in order
RECURSIVE Distinct(_)
Distinct(s) ==
  IF s = <<>> THEN <<>>
  ELSE LET d == Distinct(SubSeq(s, 1, Len(s) - 1)) IN
         IF s[Len(s)] \in Range(d) THEN d ELSE Append(d, s[Len(s)])

\* exs: a sequence of exam references; the result lists the Map's entries in
\* insertion order
groupExamsBySubject(exs, all) ==
  LET subjects == Distinct([i \in 1..Len(exs) |-> SubjKey(all[exs[i]])]) IN
    [g \in 1..Len(subjects) |->
       [subjectId |-> subjects[g],
        group |-> SelectSeq(exs, LAMBDA e : SubjKey(all[e]) = subjects[g])]]

\* the loop of tryScheduleGroup over the sections, from section i on
RECURSIVE ScheduleSections(_, _, _, _, _, _)
ScheduleSections(examGroup, i, day, slot, availableRooms, led) ==
  IF i > Len(examGroup) THEN [ret |-> TRUE, led |-> led]
  ELSE IF is6UnitSubject(examGroup[i])
  THEN LET r == schedule6UnitExam(examGroup[i], day, slot, availableRooms[i], led) IN
         IF ~r.ret THEN [ret |-> FALSE, led |-> r.led]
         ELSE ScheduleSections(examGroup, i + 1, day, slot, availableRooms, r.led)
  ELSE ScheduleSections(examGroup, i + 1, day, slot, availableRooms,
                        scheduleExam(examGroup[i], day, slot, availableRooms[i], led, FALSE))

\* examGroup: a sequence of Exam records
tryScheduleGroup(examGroup, day, slot, allRooms, led, matrix) ==
  IF Len(examGroup) = 0 THEN [ret |-> TRUE, led |-> led]
  ELSE LET has6Unit == \E i \in 1..Len(examGroup) : is6UnitSubject(examGroup[i]) IN
    IF \E i \in 1..Len(examGroup) : hasConflict(examGroup[i], day, slot, led, matrix)
    THEN [ret |-> FALSE, led |-> led]
    ELSE LET availableRooms ==
               getAvailableRooms(examGroup[1], day, slot, allRooms, led, has6Unit) IN
      IF Len(availableRooms) < Len(examGroup) THEN [ret |-> FALSE, led |-> led]
      ELSE ScheduleSections(examGroup, 1, day, slot, availableRooms, led)

-----------------------------------------------------------------------------
(* The run as a state machine.  A state record s holds every variable; each  *)
(* step is a function from state records to state records.                   *)

State ==
  [variant |-> variant, pc |-> pc, exams |-> exams, rooms |-> rooms, numDays |-> numDays,
   eligible |-> eligible, conflictMatrix |-> conflictMatrix, roomUsage |-> roomUsage,
   subjectScheduled |-> subjectScheduled, scheduled |-> scheduled, queue |-> queue,
   cursor |-> cursor, batchStart |-> batchStart, allScheduled |-> allScheduled,
   unscheduled |-> unscheduled, failed |-> failed, totalScheduled |-> totalScheduled,
   last |-> last]

Becomes(t) ==
  /\ variant' = t.variant /\ pc' = t.pc /\ exams' = t.exams /\ rooms' = t.rooms
  /\ numDays' = t.numDays /\ eligible' = t.eligible /\ conflictMatrix' = t.conflictMatrix
  /\ roomUsage' = t.roomUsage /\ subjectScheduled' = t.subjectScheduled
  /\ scheduled' = t.scheduled /\ queue' = t.queue /\ cursor' = t.cursor
  /\ batchStart' = t.batchStart /\ allScheduled' = t.allScheduled
  /\ unscheduled' = t.unscheduled
  /\ failed' = t.failed /\ totalScheduled' = t.totalScheduled /\ last' = t.last

Led(s) ==
  [roomUsage |-> s.roomUsage, subjectScheduled |-> s.subjectScheduled,
   scheduled |-> s.scheduled]

WithLed(s, led) ==
  [s EXCEPT !.roomUsage = led.roomUsage, !.subjectScheduled = led.subjectScheduled,
            !.scheduled = led.scheduled]

\* the Exam objects a sequence of references stands for
Records(all, refs) == [i \in 1..Len(refs) |-> all[refs[i]]]

NoCall == [op |-> "none", cat |-> "", group |-> <<>>, day |-> -1, slot |-> -1,
           ret |-> FALSE, n |-> 0]

Call(s, op, cat, group, day, slot, ret) ==
  [op |-> op, cat |-> cat, group |-> group, day |-> day, slot |-> slot, ret |-> ret,
   n |-> s.last.n + 1]

GridCells(s) == s.numDays * Len(TIME_SLOTS)

\* the group at the head of the queue was placed / was not placed
Placed(s) ==
  [s EXCEPT !.totalScheduled = @ + Len(Head(s.queue).group),
            !.queue = Tail(s.queue), !.cursor = 0]

Deferred(s) ==
  [s EXCEPT !.failed = @ \o Head(s.queue).group, !.queue = Tail(s.queue), !.cursor = 0]

\* a grid scan that goes on two cells further after a failed cell
GridStepSkipping(s) ==
  IF s.cursor >= GridCells(s) THEN Deferred(s)
  ELSE LET task == Head(s.queue)
           day == s.cursor \div Len(TIME_SLOTS)
           slot == s.cursor % Len(TIME_SLOTS)
           r == tryScheduleGroup(Records(s.exams, task.group), day, slot, s.rooms,
                                 Led(s), s.conflictMatrix)
           s1 == [WithLed(s, r.led) EXCEPT
                    !.last = Call(s, "tryScheduleGroup", task.cat, task.group, day, slot, r.ret)]
       IN IF r.ret THEN Placed(s1)
          ELSE IF s.cursor + 2 < GridCells(s) THEN [s1 EXCEPT !.cursor = @ + 2]
          ELSE Deferred(s1)

\* one iteration of "for day / for slot: if (tryScheduleGroup(...))" for the
\* group at the head of the queue; the cursor is day * 8 + slot
GridStep(s) ==
  IF s.cursor >= GridCells(s) THEN Deferred(s)
  ELSE LET task == Head(s.queue)
           day == s.cursor \div Len(TIME_SLOTS)
           slot == s.cursor % Len(TIME_SLOTS)
           r == tryScheduleGroup(Records(s.exams, task.group), day, slot, s.rooms,
                                 Led(s), s.conflictMatrix)
           s1 == [WithLed(s, r.led) EXCEPT
                    !.last = Call(s, "tryScheduleGroup", task.cat, task.group, day, slot, r.ret)]
       IN IF r.ret THEN Placed(s1)
          ELSE IF s.cursor + 1 < GridCells(s) THEN [s1 EXCEPT !.cursor = @ + 1]
          ELSE Deferred(s1)

\* the last block after index from whose day is inside the grid; 0 if none
NextBlockLast(blocks, from, numDays_) ==
  LET ok == {b \in (from + 1)..Len(blocks) : blocks[b].day < numDays_} IN
    IF ok = {} THEN 0 ELSE CHOOSE b \in ok : \A c \in ok : b >= c

\* the first block after index from whose day is inside the grid; 0 if none
NextBlock(blocks, from, numDays_) ==
  LET ok == {b \in (from + 1)..Len(blocks) : blocks[b].day < numDays_} IN
    IF ok = {} THEN 0 ELSE CHOOSE b \in ok : \A c \in ok : b <= c

\* one iteration of "for (const block of timeBlocks)"; the cursor is the index
\* of the last block tried
PinnedStep(s) ==
  LET task == Head(s.queue)
      blocks == GEN_ED_TIME_BLOCKS(task.type)
      b == NextBlock(blocks, s.cursor, s.numDays)
  IN IF b = 0 THEN Deferred(s)
     ELSE LET r == tryScheduleGroup(Records(s.exams, task.group), blocks[b].day,
                                    blocks[b].slot, s.rooms, Led(s), s.conflictMatrix)
              s1 == [WithLed(s, r.led) EXCEPT
                       !.last = Call(s, "tryScheduleGroup", task.cat, task.group,
                                     blocks[b].day, blocks[b].slot, r.ret)]
          IN IF r.ret THEN Placed(s1)
             ELSE IF NextBlock(blocks, b, s.numDays) # 0 THEN [s1 EXCEPT !.cursor = b]
             ELSE Deferred(s1)

Tasks(cat, type, groups) ==
  [g \in 1..Len(groups) |->
     [cat |-> cat, type |-> type, subjectId |-> groups[g].subjectId,
      group |-> groups[g].group]]

RECURSIVE Concat(_)
Concat(ss) == IF ss = <<>> THEN <<>> ELSE Head(ss) \o Concat(Tail(ss))

\* generateExamSchedule: the category lists
genEds(s) == SelectSeq(s.eligible, LAMBDA e : isGenEdSubject(s.exams[e].subjectId))
mathSubjects(s) == SelectSeq(s.eligible, LAMBDA e : isMathSubject(s.exams[e]))
archSubjects(s) == SelectSeq(s.eligible, LAMBDA e : isArchSubject(s.exams[e].subjectId))
majorSubjects(s) ==
  SelectSeq(s.eligible, LAMBDA e : /\ ~isGenEdSubject(s.exams[e].subjectId)
                                   /\ ~isMathSubject(s.exams[e])
                                   /\ ~isArchSubject(s.exams[e].subjectId))

\* scheduleGenEdTimeBlocks: genEdsByType, then the subject groups of each type
GenEdTasks(s) ==
  LET exs == genEds(s)
      types == Distinct([i \in 1..Len(exs) |-> getGenEdType(s.exams[exs[i]].subjectId)])
  IN Concat([t \in 1..Len(types) |->
       Tasks("GEN_ED", types[t],
             groupExamsBySubject(
               SelectSeq(exs, LAMBDA e : getGenEdType(s.exams[e].subjectId) = types[t]),
               s.exams))])

\* a scheduleHighPriority that schedules the ARCH groups before the MATH groups
HighPriorityTasksArchFirst(s) ==
  LET exs == mathSubjects(s) \o archSubjects(s)
      mathExams == SelectSeq(exs, LAMBDA e : isMathSubject(s.exams[e]))
      archExams == SelectSeq(exs, LAMBDA e : isArchSubject(s.exams[e].subjectId))
  IN Tasks("ARCH", NoType, groupExamsBySubject(archExams, s.exams))
     \o Tasks("MATH", NoType, groupExamsBySubject(mathExams, s.exams))

\* scheduleHighPriority([...mathSubjects, ...archSubjects]): MATH groups, then ARCH groups
HighPriorityTasks(s) ==
  LET exs == mathSubjects(s) \o archSubjects(s)
      mathExams == SelectSeq(exs, LAMBDA e : isMathSubject(s.exams[e]))
      archExams == SelectSeq(exs, LAMBDA e : isArchSubject(s.exams[e].subjectId))
  IN Tasks("MATH", NoType, groupExamsBySubject(mathExams, s.exams))
     \o Tasks("ARCH", NoType, groupExamsBySubject(archExams, s.exams))

\* the groups left in the order of groupExamsBySubject
SortBySizeNone(groups) == groups

\* Array.prototype.sort((a, b) => a[1].length - b[1].length): stable, ascending
SortBySize(groups) ==
  LET maxSize == IF groups = <<>> THEN 0
                 ELSE CHOOSE m \in {Len(groups[g].group) : g \in 1..Len(groups)} :
                        \A g \in 1..Len(groups) : Len(groups[g].group) <= m
  IN Concat([size \in 1..maxSize |-> SelectSeq(groups, LAMBDA g : Len(g.group) = size)])

MajorTasks(s) == Tasks("MAJOR", NoType, SortBySize(groupExamsBySubject(majorSubjects(s), s.exams)))

-----------------------------------------------------------------------------
(* generateExamSchedule (part_000), step by step *)

IndexSeq(n) == [i \in 1..n |-> i]

\* the SAS filter with the department compared as written, without toUpperCase
EligibleOfCaseSensitive(all) == SelectSeq(IndexSeq(Len(all)), LAMBDA e : all[e].dept # SAS)

\* the SAS filter: exams.filter(e => e.dept.toUpperCase() !== 'SAS')
EligibleOf(all) == SelectSeq(IndexSeq(Len(all)), LAMBDA e : toUpperCase(all[e].dept) # SAS)

startV5(s) ==
  LET s1 == [s EXCEPT !.eligible = EligibleOf(s.exams)]
      s2 == [s1 EXCEPT !.conflictMatrix = buildConflictMatrix(Records(s.exams, s1.eligible))]
  IN [s2 EXCEPT !.pc = "phase1", !.queue = GenEdTasks(s2), !.cursor = 0]

scheduleGenEdTimeBlocks(s) ==
  IF s.queue = <<>>
  THEN [s EXCEPT !.pc = "phase2", !.queue = HighPriorityTasks(s), !.cursor = 0]
  ELSE IF Len(GEN_ED_TIME_BLOCKS(Head(s.queue).type)) = 0 THEN GridStep(s)
  ELSE PinnedStep(s)

scheduleHighPriority(s) ==
  IF s.queue = <<>>
  THEN [s EXCEPT !.pc = "phase3", !.queue = MajorTasks(s), !.cursor = 0]
  ELSE GridStep(s)

scheduleMajorSubjects(s) ==
  IF s.queue = <<>>
  THEN [s EXCEPT !.pc = "phase4", !.queue = s.failed, !.cursor = 0]
  ELSE GridStep(s)

\* the day/slot loops of scheduleIndividually for one exam, from cell n on
RECURSIVE IndividualScan(_, _, _, _, _, _)
IndividualScan(exam, n, numDays_, allRooms, led, matrix) ==
  IF n >= numDays_ * Len(TIME_SLOTS) THEN [placed |-> FALSE, led |-> led, day |-> -1, slot |-> -1]
  ELSE LET day == n \div Len(TIME_SLOTS)
           slot == n % Len(TIME_SLOTS)
       IN IF hasConflict(exam, day, slot, led, matrix)
          THEN IndividualScan(exam, n + 1, numDays_, allRooms, led, matrix)
          ELSE LET availableRooms ==
                     getAvailableRooms(exam, day, slot, allRooms, led, is6UnitSubject(exam))
               IN IF Len(availableRooms) > 0
                  THEN IF is6UnitSubject(exam)
                       THEN LET r == schedule6UnitExam(exam, day, slot, availableRooms[1], led)
                            IN IF r.ret
                               THEN [placed |-> TRUE, led |-> r.led, day |-> day, slot |-> slot]
                               ELSE IndividualScan(exam, n + 1, numDays_, allRooms, r.led, matrix)
                       ELSE [placed |-> TRUE,
                             led |-> scheduleExam(exam, day, slot, availableRooms[1], led, FALSE),
                             day |-> day, slot |-> slot]
                  ELSE IndividualScan(exam, n + 1, numDays_, allRooms, led, matrix)

\* a Phase 4 that drops its input and never returns
scheduleIndividuallyNoEnd(s) == [s EXCEPT !.queue = <<>>]

\* a scheduleIndividually whose scan leaves out the first cell of the grid
scheduleIndividuallyFromSecondCell(s) ==
  IF s.queue = <<>> THEN [s EXCEPT !.pc = "done"]
  ELSE LET e == Head(s.queue)
           r == IndividualScan(s.exams[e], 1, s.numDays, s.rooms, Led(s), s.conflictMatrix)
       IN [WithLed(s, r.led) EXCEPT
             !.totalScheduled = IF r.placed THEN @ + 1 ELSE @,
             !.queue = Tail(s.queue),
             !.last = Call(s, "scheduleIndividually", "", <<e>>, r.day, r.slot, r.placed)]

\* one callback of exams.forEach in scheduleIndividually; queue holds exam references
scheduleIndividually(s) ==
  IF s.queue = <<>> THEN [s EXCEPT !.pc = "done"]
  ELSE LET e == Head(s.queue)
           r == IndividualScan(s.exams[e], 0, s.numDays, s.rooms, Led(s), s.conflictMatrix)
       IN [WithLed(s, r.led) EXCEPT
             !.totalScheduled = IF r.placed THEN @ + 1 ELSE @,
             !.queue = Tail(s.queue),
             !.last = Call(s, "scheduleIndividually", "", <<e>>, r.day, r.slot, r.placed)]

-----------------------------------------------------------------------------
(* Inputs *)

MaxExams == 6   \* longest exam list
MaxRooms == 3   \* longest room list
MaxDays == 2    \* largest day count

Exam(code, subjectId, course, yearLevel, dept, lec) ==
  [code |-> code, subjectId |-> subjectId, course |-> course, yearLevel |-> yearLevel,
   dept |-> dept, lec |-> lec]

BSIT == <<"B","S","I","T">>
BSAR == <<"B","S","A","R">>
CICT == <<"C","I","C","T">>

\* the sections the exam lists are drawn from
Catalog ==
  << Exam("a1", <<"A","R","C","H","1">>, BSAR, 1, SACE, 6),
     Exam("a2", <<"A","R","C","H","2">>, BSAR, 1, SACE, 6),
     Exam("a3", <<"A","R","C","H","3">>, BSAR, 1, SACE, 6),
     Exam("a4", <<"A","R","C","H","4">>, BSAR, 1, SACE, 3),
     Exam("e1", <<"P","H","E","D","1">>, BSIT, 1, CICT, 3),
     Exam("e2", <<"P","H","E","D","2">>, BSIT, 1, CICT, 3),
     Exam("g1", <<"C","S","1">>, BSIT, 1, CICT, 3),
     Exam("g2", <<"c","s","1"," ">>, BSIT, 1, SABH, 6),
     Exam("c2", <<"C","S","2">>, BSIT, 1, CICT, 3),
     Exam("s1", <<"C","S","3">>, BSIT, 1, <<"s","a","s">>, 3),
     Exam("m1", <<"M","A","T","H","1">>, <<>>, 0, SACE, 3),
     Exam("x1", <<"E","N","G","L","A","R","C","H">>, BSAR, 1, SACE, 3) >>

RoomList == << <<"N","-","1">>, <<"C","-","1">>, <<"A","-","1">>, <<"K","-","1">>,
               <<"B","-","1">> >>

RECURSIVE SeqOfSet(_)
SeqOfSet(I) ==
  IF I = {} THEN <<>>
  ELSE LET m == CHOOSE i \in I : \A j \in I : i <= j IN <<m>> \o SeqOfSet(I \ {m})

\* the sub-lists of the catalog, in catalog order, of at most MaxExams sections
ExamLists(catalog) ==
  {Records(catalog, SeqOfSet(I)) :
     I \in {J \in SUBSET (1..Len(catalog)) : Cardinality(J) <= MaxExams}}

\* the room lists: the first two to MaxRooms rooms of RoomList
RoomLists == {SubSeq(RoomList, 1, k) : k \in 2..MaxRooms}

InitWith(v, catalog) ==
  /\ variant = v
  /\ pc = "start"
  /\ exams \in ExamLists(catalog)
  /\ rooms \in RoomLists
  /\ numDays \in 1..MaxDays
  /\ eligible = <<>>
  /\ conflictMatrix = EmptyMap
  /\ roomUsage = EmptyMap
  /\ subjectScheduled = EmptyMap
  /\ scheduled = EmptyMap
  /\ queue = <<>>
  /\ cursor = 0
  /\ batchStart = 0
  /\ allScheduled = TRUE
  /\ unscheduled = <<>>
  /\ failed = <<>>
  /\ totalScheduled = 0
  /\ last = NoCall

Init == InitWith("v5", Catalog)

\* the whole run of generateExamSchedule (part_000) from state s
StepV5(s) ==
  CASE s.pc = "start" -> startV5(s)
    [] s.pc = "phase1" -> scheduleGenEdTimeBlocks(s)
    [] s.pc = "phase2" -> scheduleHighPriority(s)
    [] s.pc = "phase3" -> scheduleMajorSubjects(s)
    [] s.pc = "phase4" -> scheduleIndividually(s)
    [] OTHER -> s

RECURSIVE RunV5(_)
RunV5(s) == IF s.pc = "done" THEN s ELSE RunV5(StepV5(s))

Start == pc = "start" /\ \E t \in {startV5(State)} : Becomes(t)
Phase1 == pc = "phase1" /\ \E t \in {scheduleGenEdTimeBlocks(State)} : Becomes(t)
Phase2 == pc = "phase2" /\ \E t \in {scheduleHighPriority(State)} : Becomes(t)
Phase3 == pc = "phase3" /\ \E t \in {scheduleMajorSubjects(State)} : Becomes(t)
Phase4 == pc = "phase4" /\ \E t \in {scheduleIndividually(State)} : Becomes(t)

Next == Start \/ Phase1 \/ Phase2 \/ Phase3 \/ Phase4

Spec == Init /\ [][Next]_vars

\* generateExamSchedule is one synchronous call: a pass that can take a step
\* takes it.  This is weak fairness of Next, WF_vars(Next), written out with
\* the enabling condition of <<Next>>_vars, which is pc # "done" (C14 states
\* that every state before "done" has a successor different from itself).
FairSpec == Init /\ [][Next]_vars /\ ([]<>(pc = "done") \/ []<><<Next>>_vars)

-----------------------------------------------------------------------------
(* The V4 engine (exam-scheduler-algorithm.ts).  buildConflictMatrix,        *)
(* hasConflict, getBuildingFromRoom and groupExamsBySubject are the same     *)
(* functions in both files.                                                  *)

\* the batch threshold of tryScheduleGroupAnywhere: 35 in the source, scaled
\* down so that a subject group can exceed it
maxBatchSize == 2

getAvailableBuildingsV4(dept, subjectId) ==
  IF includes(toUpperCase(subjectId), ARCH) THEN << <<"C">>, <<"K">> >>
  ELSE LET deptUpper == toUpperCase(dept) IN
    IF \/ includes(deptUpper, SECAP) \/ includes(deptUpper, <<"A","C","C","T">>)
       \/ includes(deptUpper, <<"E","C","O","N">>) \/ includes(deptUpper, <<"B","S","B","A">>)
    THEN << <<"A">>, <<"J">>, <<"B">> >>
    ELSE IF \/ includes(deptUpper, SABH) \/ includes(deptUpper, <<"N","U","R","S">>)
            \/ includes(deptUpper, <<"S","B","H">>)
    THEN << <<"A">> >>
    ELSE IF \/ includes(deptUpper, SACE) \/ includes(deptUpper, <<"S","C","E">>)
            \/ includes(deptUpper, <<"C","E","N","G">>) \/ includes(deptUpper, <<"E","N","G">>)
    THEN << <<"N">>, <<"K">>, <<"C">> >>
    ELSE IF \/ includes(deptUpper, SHAS) \/ includes(deptUpper, <<"H","U","M","S","S">>)
            \/ includes(deptUpper, <<"H","U","M">>)
    THEN << <<"L">>, <<"M">>, <<"N">>, <<"K">>, <<"J">> >>
    ELSE << <<"A">>, <<"N">>, <<"K">>, <<"L">>, <<"M">>, <<"J">>, <<"B">>, <<"C">> >>

getAvailableRoomsV4(exam, day, slot, allRooms, led) ==
  LET allowedBuildings == getAvailableBuildingsV4(exam.dept, exam.subjectId)
      available == SelectSeq(allRooms,
                     LAMBDA room : getBuildingFromRoom(room) \in Range(allowedBuildings))
      occupied == OccupiedAt(led, DayKey(day), SlotKey(slot))
  IN SelectSeq(available, LAMBDA room : room \notin occupied)

scheduleExamV4(exam, day, slot, room, led) ==
  LET dayKey == DayKey(day)
      slotKey == SlotKey(slot)
  IN [roomUsage |-> AddRoom(led.roomUsage, dayKey, slotKey, room),
      subjectScheduled |->
        Put(led.subjectScheduled, SubjKey(exam), [day |-> dayKey, slot |-> slotKey]),
      scheduled |-> Put(led.scheduled, ScheduledKey(exam, slotKey),
                        ScheduledExamOf(exam, dayKey, slotKey, room, 0))]

\* the day/slot loops of tryScheduleExam, from cell n on
RECURSIVE TryExamFrom(_, _, _, _, _, _)
TryExamFrom(exam, n, numDays_, allRooms, led, matrix) ==
  IF n >= numDays_ * Len(TIME_SLOTS) THEN [ret |-> FALSE, led |-> led, day |-> -1, slot |-> -1]
  ELSE LET day == n \div Len(TIME_SLOTS)
           slot == n % Len(TIME_SLOTS)
       IN IF hasConflict(exam, day, slot, led, matrix)
          THEN TryExamFrom(exam, n + 1, numDays_, allRooms, led, matrix)
          ELSE LET availableRooms == getAvailableRoomsV4(exam, day, slot, allRooms, led) IN
                 IF Len(availableRooms) > 0
                 THEN [ret |-> TRUE,
                       led |-> scheduleExamV4(exam, day, slot, availableRooms[1], led),
                       day |-> day, slot |-> slot]
                 ELSE TryExamFrom(exam, n + 1, numDays_, allRooms, led, matrix)

tryScheduleExam(exam, allRooms, led, matrix, numDays_) ==
  TryExamFrom(exam, 0, numDays_, allRooms, led, matrix)

RECURSIVE ScheduleSectionsV4(_, _, _, _, _, _)
ScheduleSectionsV4(examGroup, i, day, slot, availableRooms, led) ==
  IF i > Len(examGroup) THEN led
  ELSE ScheduleSectionsV4(examGroup, i + 1, day, slot, availableRooms,
                          scheduleExamV4(examGroup[i], day, slot, availableRooms[i], led))

tryScheduleGroupV4(examGroup, day, slot, allRooms, led, matrix) ==
  IF Len(examGroup) = 0 THEN [ret |-> TRUE, led |-> led]
  ELSE IF \E i \in 1..Len(examGroup) : hasConflict(examGroup[i], day, slot, led, matrix)
  THEN [ret |-> FALSE, led |-> led]
  ELSE LET availableRooms == getAvailableRoomsV4(examGroup[1], day, slot, allRooms, led) IN
    IF Len(availableRooms) < Len(examGroup) THEN [ret |-> FALSE, led |-> led]
    ELSE [ret |-> TRUE,
          led |-> ScheduleSectionsV4(examGroup, 1, day, slot, availableRooms, led)]

Min(a, b) == IF a <= b THEN a ELSE b

\* tryScheduleGroupAnywhere returned true / false for the group at the head of
\* the queue: phase1Success += length, or phase1Fail.push(...examGroup)
AnywhereReturns(s, ret) ==
  LET s1 == [s EXCEPT !.batchStart = 0, !.allScheduled = TRUE] IN
    IF ret THEN Placed(s1) ELSE Deferred(s1)

\* a tryScheduleGroupAnywhere that returns at the first batch that fails
tryScheduleGroupAnywhereStopping(s) ==
  LET task == Head(s.queue)
      examGroup == task.group
      day == s.cursor \div Len(TIME_SLOTS)
      slot == s.cursor % Len(TIME_SLOTS)
      lastCell == s.cursor + 1 >= GridCells(s)
  IN IF Len(examGroup) <= maxBatchSize
     THEN IF s.cursor >= GridCells(s) THEN AnywhereReturns(s, FALSE)
          ELSE LET r == tryScheduleGroupV4(Records(s.exams, examGroup), day, slot, s.rooms,
                                           Led(s), s.conflictMatrix)
                   s1 == [WithLed(s, r.led) EXCEPT
                            !.last = Call(s, "tryScheduleGroup", task.cat, examGroup,
                                          day, slot, r.ret)]
               IN IF r.ret THEN AnywhereReturns(s1, TRUE)
                  ELSE IF lastCell THEN AnywhereReturns(s1, FALSE)
                  ELSE [s1 EXCEPT !.cursor = @ + 1]
     ELSE LET batch == SubSeq(examGroup, s.batchStart + 1,
                              Min(s.batchStart + maxBatchSize, Len(examGroup)))
              \* the batch loop moves on to the next batch, or ends
              NextBatch(t, ok) ==
                LET t1 == [t EXCEPT !.allScheduled = @ /\ ok,
                                    !.batchStart = @ + maxBatchSize, !.cursor = 0]
                IN IF t1.batchStart < Len(examGroup) THEN t1
                   ELSE AnywhereReturns(t1, t1.allScheduled)
          IN IF s.cursor >= GridCells(s) THEN AnywhereReturns(s, FALSE)
             ELSE LET r == tryScheduleGroupV4(Records(s.exams, batch), day, slot, s.rooms,
                                              Led(s), s.conflictMatrix)
                      s1 == [WithLed(s, r.led) EXCEPT
                               !.last = Call(s, "tryScheduleGroup", task.cat, batch,
                                             day, slot, r.ret)]
                  IN IF r.ret THEN NextBatch(s1, TRUE)
                     ELSE IF lastCell THEN AnywhereReturns(s1, FALSE)
                     ELSE [s1 EXCEPT !.cursor = @ + 1]

\* one call of tryScheduleGroup inside tryScheduleGroupAnywhere, for the group
\* at the head of the queue
tryScheduleGroupAnywhere(s) ==
  LET task == Head(s.queue)
      examGroup == task.group
      day == s.cursor \div Len(TIME_SLOTS)
      slot == s.cursor % Len(TIME_SLOTS)
      lastCell == s.cursor + 1 >= GridCells(s)
  IN IF Len(examGroup) <= maxBatchSize
     THEN IF s.cursor >= GridCells(s) THEN AnywhereReturns(s, FALSE)
          ELSE LET r == tryScheduleGroupV4(Records(s.exams, examGroup), day, slot, s.rooms,
                                           Led(s), s.conflictMatrix)
                   s1 == [WithLed(s, r.led) EXCEPT
                            !.last = Call(s, "tryScheduleGroup", task.cat, examGroup,
                                          day, slot, r.ret)]
               IN IF r.ret THEN AnywhereReturns(s1, TRUE)
                  ELSE IF lastCell THEN AnywhereReturns(s1, FALSE)
                  ELSE [s1 EXCEPT !.cursor = @ + 1]
     ELSE LET batch == SubSeq(examGroup, s.batchStart + 1,
                              Min(s.batchStart + maxBatchSize, Len(examGroup)))
              \* the batch loop moves on to the next batch, or ends
              NextBatch(t, ok) ==
                LET t1 == [t EXCEPT !.allScheduled = @ /\ ok,
                                    !.batchStart = @ + maxBatchSize, !.cursor = 0]
                IN IF t1.batchStart < Len(examGroup) THEN t1
                   ELSE AnywhereReturns(t1, t1.allScheduled)
          IN IF s.cursor >= GridCells(s) THEN NextBatch(s, FALSE)
             ELSE LET r == tryScheduleGroupV4(Records(s.exams, batch), day, slot, s.rooms,
                                              Led(s), s.conflictMatrix)
                      s1 == [WithLed(s, r.led) EXCEPT
                               !.last = Call(s, "tryScheduleGroup", task.cat, batch,
                                             day, slot, r.ret)]
                  IN IF r.ret THEN NextBatch(s1, TRUE)
                     ELSE IF lastCell THEN NextBatch(s1, FALSE)
                     ELSE [s1 EXCEPT !.cursor = @ + 1]

\* generateExamSchedule (exam-scheduler-algorithm.ts), step by step
startV4(s) ==
  LET s1 == [s EXCEPT !.eligible = EligibleOf(s.exams)]
      s2 == [s1 EXCEPT !.conflictMatrix = buildConflictMatrix(Records(s.exams, s1.eligible))]
  IN [s2 EXCEPT !.pc = "v4phase1", !.cursor = 0,
                !.queue = Tasks("ALL", NoType,
                                SortBySize(groupExamsBySubject(s2.eligible, s.exams)))]

groupPassV4(s) ==
  IF s.queue = <<>>
  THEN [s EXCEPT !.pc = "v4phase2", !.queue = s.failed, !.cursor = 0]
  ELSE tryScheduleGroupAnywhere(s)

individualPassV4(s) ==
  IF s.queue = <<>> THEN [s EXCEPT !.pc = "done"]
  ELSE LET e == Head(s.queue)
           r == tryScheduleExam(s.exams[e], s.rooms, Led(s), s.conflictMatrix, s.numDays)
       IN [WithLed(s, r.led) EXCEPT
             !.totalScheduled = IF r.ret THEN @ + 1 ELSE @,
             !.unscheduled = IF r.ret THEN @ ELSE Append(@, e),
             !.queue = Tail(s.queue),
             !.last = Call(s, "tryScheduleExam", "", <<e>>, r.day, r.slot, r.ret)]

StepV4(s) ==
  CASE s.pc = "start" -> startV4(s)
    [] s.pc = "v4phase1" -> groupPassV4(s)
    [] s.pc = "v4phase2" -> individualPassV4(s)
    [] OTHER -> s

RECURSIVE RunV4(_)
RunV4(s) == IF s.pc = "done" THEN s ELSE RunV4(StepV4(s))

BSN == <<"B","S","N">>
NUR1 == <<"N","U","R","1">>

CatalogV4 ==
  << Exam("b1", NUR1, BSN, 2, SABH, 3),
     Exam("b2", NUR1, BSN, 2, SABH, 3),
     Exam("b3", NUR1, BSN, 2, SABH, 3),
     Exam("b4", <<"n","u","r","1">>, BSN, 2, SABH, 3),
     Exam("c1", <<"C","S","1">>, BSIT, 1, CICT, 3),
     Exam("c2", <<"C","S","1">>, BSIT, 1, SACE, 3),
     Exam("c3", <<"C","S","2">>, BSIT, 1, CICT, 6),
     Exam("s1", <<"C","S","3">>, BSIT, 1, <<"S","a","s">>, 3),
     Exam("a1", <<"A","R","C","H","1">>, <<>>, 0, SACE, 3) >>

InitV4 == InitWith("v4", CatalogV4)

StartV4 == pc = "start" /\ \E t \in {startV4(State)} : Becomes(t)
GroupPassV4 == pc = "v4phase1" /\ \E t \in {groupPassV4(State)} : Becomes(t)
IndividualPassV4 == pc = "v4phase2" /\ \E t \in {individualPassV4(State)} : Becomes(t)

NextV4 == StartV4 \/ GroupPassV4 \/ IndividualPassV4

SpecV4 == InitV4 /\ [][NextV4]_vars

-----------------------------------------------------------------------------
(* Properties *)

Entries == {scheduled[k] : k \in DOMAIN scheduled}

EntriesOf(code) == {x \in Entries : x.CODE = code}

SlotIndex(slotKey) == CHOOSE i \in 0..(Len(TIME_SLOTS) - 1) : SlotKey(i) = slotKey

EligibleExams == {exams[eligible[i]] : i \in 1..Len(eligible)}

\* C1: at every point of the run, no two distinct output entries share the
\* same (day, slot, room); second-slot entries of 6-unit sections included.
C1_NoDoubleBooking ==
  \A k1, k2 \in DOMAIN scheduled :
    k1 # k2 => ~(/\ scheduled[k1].DAY = scheduled[k2].DAY
                 /\ scheduled[k1].SLOT = scheduled[k2].SLOT
                 /\ scheduled[k1].ROOM = scheduled[k2].ROOM)

\* a second-slot entry of a 6-unit section shares its (day, slot) with the
\* entry of another section, in another room
C1_Witness ==
  \E x, y \in Entries :
    /\ x.CODE # y.CODE /\ x.DAY = y.DAY /\ x.SLOT = y.SLOT /\ x.ROOM # y.ROOM
    /\ x.UNITS = 6
    /\ \E z \in Entries : /\ z.CODE = x.CODE /\ z.DAY = x.DAY /\ z.ROOM = x.ROOM
                          /\ SlotIndex(z.SLOT) + 1 = SlotIndex(x.SLOT)

\* C2: in the final output, no entry of subject A and entry of subject B with
\* B in ConflictMatrix[K][A] share the same (day, slot).
C2_ConflictFreeOutput ==
  pc = "done" =>
    \A x, y \in Entries :
      (x.DAY = y.DAY /\ x.SLOT = y.SLOT) =>
        \A K \in DOMAIN conflictMatrix :
          LET A == trim(toUpperCase(x.SUBJECT_ID))
              B == trim(toUpperCase(y.SUBJECT_ID))
          IN ~(A \in DOMAIN conflictMatrix[K] /\ B \in conflictMatrix[K][A])

\* the step was a call of tryScheduleGroup
GroupCall == last'.n # last.n /\ last'.op = "tryScheduleGroup"

\* C3: a call of tryScheduleGroup that returns false leaves room occupancy,
\* subject placements and the output map exactly as they were.
C3_FailureIsAllOrNothing ==
  [][(GroupCall /\ ~last'.ret) =>
       (roomUsage' = roomUsage /\ subjectScheduled' = subjectScheduled
        /\ scheduled' = scheduled)]_vars

\* C4: after a call of tryScheduleGroup(group, day, slot) that returned true,
\* every member has an output entry at (day, slot), every 6-unit member also at
\* the following slot in the same room, and distinct members have distinct rooms.
C4_GroupAtomicOnSuccess ==
  (last.op = "tryScheduleGroup" /\ last.ret) =>
    LET members == Records(exams, last.group)
        at(m, slot) == ScheduledKey(m, SlotKey(slot))
    IN /\ \A i \in 1..Len(members) :
            /\ at(members[i], last.slot) \in DOMAIN scheduled
            /\ scheduled[at(members[i], last.slot)].CODE = members[i].code
            /\ scheduled[at(members[i], last.slot)].DAY = DayKey(last.day)
            /\ scheduled[at(members[i], last.slot)].SLOT = SlotKey(last.slot)
            /\ members[i].lec = 6 =>
                 /\ last.slot + 1 < Len(TIME_SLOTS)
                 /\ at(members[i], last.slot + 1) \in DOMAIN scheduled
                 /\ scheduled[at(members[i], last.slot + 1)].DAY = DayKey(last.day)
                 /\ scheduled[at(members[i], last.slot + 1)].SLOT = SlotKey(last.slot + 1)
                 /\ scheduled[at(members[i], last.slot + 1)].ROOM
                      = scheduled[at(members[i], last.slot)].ROOM
       /\ \A i, j \in 1..Len(members) :
            members[i].code # members[j].code =>
              scheduled[at(members[i], last.slot)].ROOM
                # scheduled[at(members[j], last.slot)].ROOM

\* C5: in the final output a scheduled 6-unit section has exactly two entries,
\* on the same day, in consecutive slots, in the same room; any other scheduled
\* section has exactly one entry.
C5_DoubleSlotContiguity ==
  pc = "done" =>
    \A e \in EligibleExams :
      LET mine == EntriesOf(e.code) IN
        mine # {} =>
          IF e.lec = 6
          THEN /\ Cardinality(mine) = 2
               /\ \E x, y \in mine : /\ x.DAY = y.DAY /\ x.ROOM = y.ROOM
                                     /\ SlotIndex(y.SLOT) = SlotIndex(x.SLOT) + 1
          ELSE Cardinality(mine) = 1

\* C6: the building prefix of every output entry's room is in the allowed
\* building set computed from the entry's own department and subject.
C6_BuildingEligibility ==
  \A x \in Entries :
    getBuildingFromRoom(x.ROOM) \in Range(getAvailableBuildings(x.DEPT, x.SUBJECT_ID))

\* C7: a section that holds output entries is never committed again (its
\* entries stay as they are) and no occupied room is released; so at the end a
\* section has the entries of exactly one commit or none.
C7_OneCommitPerSection ==
  [][/\ \A e \in EligibleExams :
          EntriesOf(e.code) # {} =>
            {x \in {scheduled'[k] : k \in DOMAIN scheduled'} : x.CODE = e.code}
              = EntriesOf(e.code)
     /\ \A d \in DOMAIN roomUsage : \A t \in DOMAIN roomUsage[d] :
          /\ d \in DOMAIN roomUsage' /\ t \in DOMAIN roomUsage'[d]
          /\ roomUsage[d][t] \subseteq roomUsage'[d][t]]_vars

\* the group pass has just handed its failed list to the individual pass
Handover ==
  /\ pc \in {"v4phase2", "phase4"}
  /\ last.op \in {"tryScheduleGroup", "none"}
  /\ queue = failed

\* C8: the sections handed from the group pass to the individual retry pass
\* are exactly the sections that hold no committed placement at that moment.
C8_OnlyUnplacedCarried ==
  Handover =>
    /\ \A i \in 1..Len(queue) : EntriesOf(exams[queue[i]].code) = {}
    /\ \A i \in 1..Len(eligible) :
         EntriesOf(exams[eligible[i]].code) = {} => eligible[i] \in Range(queue)

\* the state at the entry of generateExamSchedule, on the input of state s
Fresh(s) ==
  [s EXCEPT !.pc = "start", !.eligible = <<>>, !.conflictMatrix = EmptyMap,
            !.roomUsage = EmptyMap, !.subjectScheduled = EmptyMap, !.scheduled = EmptyMap,
            !.queue = <<>>, !.cursor = 0, !.batchStart = 0, !.allScheduled = TRUE,
            !.unscheduled = <<>>, !.failed = <<>>, !.totalScheduled = 0, !.last = NoCall]

\* the student-affairs sections of the input, by the spec's rule
IsStudentAffairs(exam) == toUpperCase(exam.dept) = SAS

\* C9: a section of department 'SAS' (in any letter case) never appears in the
\* output, is never handed to a scheduling pass, contributes no key and no edge
\* to the ConflictMatrix, and the output at the end of the run is the output
\* of the run on the input without the student-affairs sections.
C9_StudentAffairsExcluded ==
  LET sas == {e \in 1..Len(exams) : IsStudentAffairs(exams[e])}
      others == {exams[e] : e \in (1..Len(exams)) \ sas}
      offers == {<<CourseYearKey(o), SubjKey(o)>> : o \in {x \in others : HasCourseYear(x)}}
      offered(K, A) == <<K, A>> \in offers
  IN /\ \A e \in sas : EntriesOf(exams[e].code) = {}
     /\ \A e \in sas :
          /\ e \notin Range(eligible) /\ e \notin Range(failed) /\ e \notin Range(last.group)
          /\ \A i \in 1..Len(queue) :
               IF pc \in {"phase4", "v4phase2"} THEN queue[i] # e
               ELSE e \notin Range(queue[i].group)
     /\ \A K \in DOMAIN conflictMatrix : \A A \in DOMAIN conflictMatrix[K] :
          offered(K, A) /\ \A B \in conflictMatrix[K][A] : offered(K, B)
     /\ (pc = "done" /\ sas # {}) =>
          LET without == [Fresh(State) EXCEPT
                            !.exams = SelectSeq(exams, LAMBDA x : ~IsStudentAffairs(x))]
          IN scheduled = IF variant = "v5" THEN RunV5(without).scheduled
                         ELSE RunV4(without).scheduled

\* the run ended with output, on an input holding a student-affairs section
\* that shares its course-year with a scheduled section of another subject
C9_Witness ==
  /\ pc = "done"
  /\ \E e \in 1..Len(exams) : \E x \in Entries :
       /\ IsStudentAffairs(exams[e])
       /\ x.COURSE = exams[e].course /\ x.YEAR_LEVEL = exams[e].yearLevel
       /\ SubjKey(exams[e]) # trim(toUpperCase(x.SUBJECT_ID))

\* the room list holds a room of a building allowed for the section
HasEligibleRoom(exam) ==
  \E i \in 1..Len(rooms) :
    getBuildingFromRoom(rooms[i]) \in Range(getAvailableBuildings(exam.dept, exam.subjectId))

\* C10: a section for which no grid cell offers a free building-eligible room
\* (here: the room list holds no eligible room at all) ends the run with zero
\* output entries for its code.
C10_UnplaceableHasNoEntry ==
  pc = "done" =>
    \A e \in EligibleExams : ~HasEligibleRoom(e) => EntriesOf(e.code) = {}

\* the sections holding at least one output entry
PlacedCodes(out) == {out[k].CODE : k \in DOMAIN out}

BlocksInGrid(group) ==
  SelectSeq(GEN_ED_TIME_BLOCKS(getGenEdType(exams[group[1]].subjectId)),
            LAMBDA b : b.day < numDays)

\* the position of cell (day, slot) among the blocks; 0 if it is none of them
BlockIndex(blocks, day, slot) ==
  LET at == {j \in 1..Len(blocks) : blocks[j].day = day /\ blocks[j].slot = slot}
  IN IF at = {} THEN 0 ELSE CHOOSE j \in at : TRUE

\* C12: in Phase 1 a general-education group is attempted only at the pinned
\* blocks of its category that lie inside the grid, in declared order, one
\* block after the other until the first success; a first block that is
\* conflict-free with enough free rooms takes the group; a group is deferred
\* only when its last block inside the grid failed (or none is inside).
C12_PinnedBlocksInOrder ==
  [][pc = "phase1" =>
       /\ last'.n # last.n =>
            LET group == last'.group
                blocks == BlocksInGrid(group)
                j == BlockIndex(blocks, last'.day, last'.slot)
                sameGroup == last.cat = "GEN_ED" /\ last.group = group
                members == Records(exams, group)
            IN /\ last'.op = "tryScheduleGroup" /\ last'.cat = "GEN_ED"
               /\ j >= 1
               /\ sameGroup => (~last.ret /\ j = BlockIndex(blocks, last.day, last.slot) + 1)
               /\ ~sameGroup => j = 1
               /\ (last.cat = "GEN_ED" /\ ~sameGroup /\ ~last.ret) =>
                    BlockIndex(BlocksInGrid(last.group), last.day, last.slot)
                      = Len(BlocksInGrid(last.group))
               /\ (/\ \A i \in 1..Len(members) :
                         ~hasConflict(members[i], last'.day, last'.slot, Led(State),
                                      conflictMatrix)
                    /\ Len(getAvailableRooms(members[1], last'.day, last'.slot, rooms,
                                             Led(State), \E m \in 1..Len(members) :
                                                           is6UnitSubject(members[m])))
                         >= Len(members))
                    => last'.ret
               /\ last'.ret =>
                    \A i \in 1..Len(members) : \E x \in {scheduled'[k] : k \in DOMAIN scheduled'} :
                      /\ x.CODE = members[i].code
                      /\ x.DAY = DayKey(last'.day) /\ x.SLOT = SlotKey(last'.slot)
               /\ (failed' # failed) <=> (~last'.ret /\ j = Len(blocks))
               /\ failed' # failed => failed' = failed \o group
       /\ (last'.n = last.n /\ failed' # failed) =>
            /\ queue # <<>> /\ BlocksInGrid(Head(queue).group) = <<>>
            /\ failed' = failed \o Head(queue).group]_vars

\* a general-education group failed at its first pinned block and was placed
\* at its second one
C12_Witness ==
  /\ last.op = "tryScheduleGroup" /\ last.cat = "GEN_ED" /\ last.ret
  /\ BlockIndex(BlocksInGrid(last.group), last.day, last.slot) = 2

\* the subjects the ConflictMatrix lists for the section under its course-year key
ConflictSet(exam) ==
  IF /\ HasCourseYear(exam) /\ CourseYearKey(exam) \in DOMAIN conflictMatrix
     /\ SubjKey(exam) \in DOMAIN conflictMatrix[CourseYearKey(exam)]
  THEN conflictMatrix[CourseYearKey(exam)][SubjKey(exam)]
  ELSE {}

\* a subject of the section's conflict set has (day, slot) as its placement in
\* the subject-placement ledger placements
ConflictAt(exam, day, slot, placements) ==
  \E B \in ConflictSet(exam) :
    /\ B \in DOMAIN placements
    /\ placements[B] = [day |-> DayKey(day), slot |-> SlotKey(slot)]

\* C13: a call that commits a section at (day, slot) finds no subject of the
\* section's conflict set placed at (day, slot), before and after the commit;
\* a group call at a cell where a member has such a conflict commits nothing
\* and returns false.
C13_NoCommitOnConflict ==
  [][last'.n # last.n =>
       LET members == Records(exams, last'.group)
           committed == roomUsage' # roomUsage \/ scheduled' # scheduled
                          \/ subjectScheduled' # subjectScheduled
       IN /\ committed =>
               \A i \in 1..Len(members) :
                 /\ ~ConflictAt(members[i], last'.day, last'.slot, subjectScheduled)
                 /\ ~ConflictAt(members[i], last'.day, last'.slot, subjectScheduled')
          /\ (/\ last'.op = "tryScheduleGroup"
              /\ \E i \in 1..Len(members) :
                    ConflictAt(members[i], last'.day, last'.slot, subjectScheduled))
               => ~last'.ret /\ ~committed]_vars

\* a section was committed in a later slot of a day on which a subject of its
\* conflict set is placed in an earlier slot
C13_Witness ==
  /\ last.ret /\ last.group # <<>>
  /\ \E t \in 0..(Len(TIME_SLOTS) - 1) :
       /\ t < last.slot
       /\ ConflictAt(exams[last.group[1]], last.day, t, subjectScheduled)

\* the position of a pass in generateExamSchedule
PassRank(p) ==
  CASE p = "start" -> 0 [] p = "phase1" -> 1 [] p = "phase2" -> 2 [] p = "phase3" -> 3
    [] p = "phase4" -> 4 [] OTHER -> 5

\* C14: the run ends; the passes are entered one after the other, each once,
\* none again after it was left; at the end no section is left pending and
\* every eligible section either holds output entries or holds none and was
\* handed to no further pass.
C14_Terminates ==
  /\ <>(pc = "done")
  /\ [](pc # "done" => StepV5(State) # State)
  /\ [][PassRank(pc') = PassRank(pc) \/ PassRank(pc') = PassRank(pc) + 1]_vars
  /\ [](pc = "done" => queue = <<>>)
  /\ [][pc = "done" => UNCHANGED vars]_vars

\* the run has ended with one section scheduled and another one unscheduled
C14_Witness ==
  /\ pc = "done"
  /\ \E e \in EligibleExams : EntriesOf(e.code) # {}
  /\ \E e \in EligibleExams : EntriesOf(e.code) = {}


\* exam lists with a subject that is offered under two course-year keys and
\* to a section without course and year level
BSCS == <<"B","S","C","S">>

SharedCatalog ==
  << Exam("g1", <<"C","S","1">>, BSIT, 1, CICT, 3),
     Exam("g3", <<"C","S","1">>, <<>>, 0, CICT, 3),
     Exam("g4", <<"C","S","1">>, BSCS, 2, CICT, 3),
     Exam("c2", <<"C","S","2">>, BSIT, 1, CICT, 3),
     Exam("c4", <<"C","S","4">>, BSCS, 2, CICT, 3),
     Exam("e1", <<"P","H","E","D","1">>, BSIT, 1, CICT, 3),
     Exam("m1", <<"M","A","T","H","1">>, <<>>, 0, SACE, 3) >>

InitShared == InitWith("v5", SharedCatalog)

SpecShared == InitShared /\ [][Next]_vars

\* C15: in every state, two subjects that are mutual conflicts under some
\* course-year key are not recorded at the same (day, slot) in the
\* subject-placement ledger.
C15_LedgerInvariant ==
  \A K \in DOMAIN conflictMatrix :
    \A A \in DOMAIN conflictMatrix[K] :
      \A B \in conflictMatrix[K][A] :
        (/\ B \in DOMAIN conflictMatrix[K] /\ A \in conflictMatrix[K][B]
         /\ A \in DOMAIN subjectScheduled /\ B \in DOMAIN subjectScheduled)
          => subjectScheduled[A] # subjectScheduled[B]


\* the cells of the grid, numbered day-ascending then slot-ascending
Cells == 0..(numDays * Len(TIME_SLOTS) - 1)

CellDay(n) == n \div Len(TIME_SLOTS)

CellSlot(n) == n % Len(TIME_SLOTS)

\* the result of the Room Selector for a section at cell n, in the current ledger
RoomsAt(exam, n) ==
  IF variant = "v5"
  THEN getAvailableRooms(exam, CellDay(n), CellSlot(n), rooms, Led(State), is6UnitSubject(exam))
  ELSE getAvailableRoomsV4(exam, CellDay(n), CellSlot(n), rooms, Led(State))

\* the least cell of a non-empty set of cells
FirstCell(S) == CHOOSE n \in S : \A m \in S : n <= m

\* a step that is the individual scan of one carried-forward section
IndividualCall ==
  last'.n # last.n /\ last'.op \in {"scheduleIndividually", "tryScheduleExam"}

\* C16 as stated: the individual pass places a carried-forward section at the
\* first cell at which the Room Selector returns rooms for it, and leaves it
\* unscheduled only if no cell returns rooms.
C16_FirstCellWithRooms ==
  [][IndividualCall =>
       LET exam == exams[last'.group[1]]
           open == {n \in Cells : RoomsAt(exam, n) # <<>>}
       IN IF open = {} THEN ~last'.ret
          ELSE /\ last'.ret
               /\ last'.day = CellDay(FirstCell(open))
               /\ last'.slot = CellSlot(FirstCell(open))]_vars

\* C16 amended: the individual pass places a carried-forward section at the
\* first cell at which no subject of its conflict set is recorded, the Room
\* Selector returns rooms and, for a 6-unit section of the V5 engine, a
\* following slot exists; it takes the first room returned; it leaves the
\* section unscheduled, and the ledger unchanged, only if there is no such cell.
C16_FirstFreeCellWithRooms ==
  [][IndividualCall =>
       LET exam == exams[last'.group[1]]
           fit == {n \in Cells :
                     /\ ~ConflictAt(exam, CellDay(n), CellSlot(n), subjectScheduled)
                     /\ RoomsAt(exam, n) # <<>>
                     /\ (variant = "v5" /\ is6UnitSubject(exam))
                          => CellSlot(n) + 1 < Len(TIME_SLOTS)}
       IN IF fit = {}
          THEN /\ ~last'.ret
               /\ UNCHANGED <<roomUsage, subjectScheduled, scheduled>>
          ELSE LET n == FirstCell(fit)
                   key == ScheduledKey(exam, SlotKey(CellSlot(n)))
               IN /\ last'.ret
                  /\ last'.day = CellDay(n) /\ last'.slot = CellSlot(n)
                  /\ key \in DOMAIN scheduled'
                  /\ scheduled'[key].DAY = DayKey(CellDay(n))
                  /\ scheduled'[key].ROOM = RoomsAt(exam, n)[1]
                  /\ RoomsAt(exam, n)[1] \in
                        OccupiedAt([roomUsage |-> roomUsage'],
                                   DayKey(CellDay(n)), SlotKey(CellSlot(n)))]_vars

\* the individual pass placed a section at a cell that comes after a cell at
\* which the Room Selector returns rooms for it and a subject of its conflict
\* set is recorded
C16_Witness ==
  /\ last.op = "scheduleIndividually" /\ last.ret
  /\ \E n \in Cells :
       /\ n < last.day * Len(TIME_SLOTS) + last.slot
       /\ RoomsAt(exams[last.group[1]], n) # <<>>
       /\ ConflictAt(exams[last.group[1]], CellDay(n), CellSlot(n), subjectScheduled)


\* the inputs of the four group passes, as generateExamSchedule separates them
PassInputs ==
  [GEN_ED |-> Range(genEds(State)), MATH |-> Range(mathSubjects(State)),
   ARCH |-> Range(archSubjects(State)), MAJOR |-> Range(majorSubjects(State))]

\* C17: once the categories are separated, every eligible section belongs to
\* the input of exactly one of the passes general education, mathematics,
\* architecture and major.
C17_PhaseInputsDisjoint ==
  pc # "start" =>
    \A i \in 1..Len(eligible) :
      Cardinality({c \in DOMAIN PassInputs : eligible[i] \in PassInputs[c]}) = 1


\* the place of a call in the order of the passes of generateExamSchedule
CallRank(call) ==
  CASE call.op = "none" -> 0
    [] call.op = "scheduleIndividually" -> 5
    [] call.cat = "GEN_ED" -> 1
    [] call.cat = "MATH" -> 2
    [] call.cat = "ARCH" -> 3
    [] OTHER -> 4

\* C18: the calls of a run come in the order general education, mathematics,
\* architecture, major, individual retry: no call of an earlier pass follows a
\* call of a later pass; the groups still waiting in a group pass belong to
\* the pass of the last call or to a later one; the individual retry runs only
\* when the group passes have ended; and the ledger and the output change only
\* within a call, so no commit of a later pass precedes an attempt of an
\* earlier one.
C18_PhaseOrder ==
  [][/\ CallRank(last') >= CallRank(last)
     /\ pc' \in {"phase1", "phase2", "phase3"} =>
           \A i \in 1..Len(queue') :
             /\ CallRank([op |-> "tryScheduleGroup", cat |-> queue'[i].cat]) >= CallRank(last')
             /\ \A j \in 1..i :
                  CallRank([op |-> "tryScheduleGroup", cat |-> queue'[j].cat])
                    <= CallRank([op |-> "tryScheduleGroup", cat |-> queue'[i].cat])
     /\ (last'.n # last.n /\ last'.op = "scheduleIndividually") => pc = "phase4"
     /\ (last'.n # last.n /\ last'.op = "tryScheduleGroup") =>
           pc = CASE last'.cat = "GEN_ED" -> "phase1"
                  [] last'.cat \in {"MATH", "ARCH"} -> "phase2"
                  [] OTHER -> "phase3"
     /\ last'.n = last.n => UNCHANGED <<roomUsage, subjectScheduled, scheduled>>]_vars

\* the individual retry placed a section in a run whose four group passes
\* each placed a group
C18_Witness ==
  /\ last.op = "scheduleIndividually" /\ last.ret
  /\ \A p \in {PRIORITY_LEVELS.GEN_ED, PRIORITY_LEVELS.MATH, PRIORITY_LEVELS.ARCH,
                PRIORITY_LEVELS.MAJOR} :
       \E x \in Entries : x.PRIORITY = p /\ x.CODE # exams[last.group[1]].code


\* C19: in Phase 2 and Phase 3 the group at the head of the queue is tried at
\* the cells of the grid day-ascending then slot-ascending, starting at the
\* first cell, one call per cell; the call succeeds exactly if group placement
\* succeeds against the ledger as it stands; after the first success the scan
\* of the group ends and the next group starts at the first cell; after a
\* failure the scan goes on with the next cell, and only after the failure at
\* the last cell the group is deferred.
C19_GridFirstFit ==
  [][/\ (pc' # pc \/ queue' # queue) => cursor' = 0
     /\ (pc \in {"phase2", "phase3"} /\ queue # <<>>) =>
          LET task == Head(queue)
              r == tryScheduleGroup(Records(exams, task.group), CellDay(cursor),
                                    CellSlot(cursor), rooms, Led(State), conflictMatrix)
          IN /\ cursor \in Cells
             /\ last'.n = last.n + 1 /\ last'.op = "tryScheduleGroup"
             /\ last'.group = task.group
             /\ last'.day = CellDay(cursor) /\ last'.slot = CellSlot(cursor)
             /\ last'.ret = r.ret
             /\ IF last'.ret
                THEN /\ queue' = Tail(queue) /\ failed' = failed
                     /\ totalScheduled' = totalScheduled + Len(task.group)
                ELSE /\ totalScheduled' = totalScheduled
                     /\ IF cursor + 1 \in Cells
                        THEN queue' = queue /\ cursor' = cursor + 1 /\ failed' = failed
                        ELSE queue' = Tail(queue) /\ failed' = failed \o task.group]_vars

\* a group of Phase 2 or Phase 3 was placed at a cell of the second day, after
\* it had failed at every cell of the first day
C19_Witness ==
  /\ last.op = "tryScheduleGroup" /\ last.cat \in {"MATH", "ARCH", "MAJOR"}
  /\ last.ret /\ last.day = 1


\* the place in the input at which the subject of a group is first encountered
FirstSeen(group) == CHOOSE e \in Range(group) : \A f \in Range(group) : e <= f

\* group g comes before group h in the order of the size-sorted pass
Before(g, h) ==
  \/ Len(g) < Len(h)
  \/ Len(g) = Len(h) /\ FirstSeen(g) < FirstSeen(h)

\* C20: the size-sorted pass (Phase 3 of part_000, the group pass of the V4
\* engine) takes its groups in ascending order of group size, groups of equal
\* size in the order in which their subject is first met in the input: the
\* waiting groups are in that order, every step of the pass is a call for
\* sections of the group at the head of them, a group leaves only from the
\* head, and Phase 3 starts with one group per subject of the major sections.
C20_MajorOrder ==
  [][/\ pc' \in {"phase3", "v4phase1"} =>
           \A i, j \in 1..Len(queue') : i < j => Before(queue'[i].group, queue'[j].group)
     /\ (pc \in {"phase3", "v4phase1"} /\ queue # <<>>) =>
           /\ queue' \in {queue, Tail(queue)}
           /\ last'.n # last.n
           /\ Range(last'.group) # {}
           /\ Range(last'.group) \subseteq Range(Head(queue).group)
     /\ (pc = "phase2" /\ pc' = "phase3") =>
           /\ UNION {Range(queue'[i].group) : i \in 1..Len(queue')} = PassInputs.MAJOR
           /\ \A i \in 1..Len(queue') :
                \A e \in Range(queue'[i].group) : \A f \in PassInputs.MAJOR :
                  (SubjKey(exams[e]) = SubjKey(exams[f])) <=> f \in Range(queue'[i].group)]_vars

\* a major group of two sections is called after a major section that stands
\* later in the input was placed
C20_Witness ==
  /\ last.op = "tryScheduleGroup" /\ last.cat = "MAJOR" /\ Len(last.group) = 2
  /\ \E e \in PassInputs.MAJOR :
       /\ e > FirstSeen(last.group)
       /\ e \notin Range(last.group)
       /\ EntriesOf(exams[e].code) # {}


\* the sections of the set E that have a course and a year level and belong
\* to course-year key K
SectionsOf(E, K) == {e \in E : HasCourseYear(e) /\ CourseYearKey(e) = K}

\* M has one relation per course-year key of the sections E; the relation of
\* key K is over the subjects of the sections of K; B is related to A exactly
\* when K has a section of A and a section of B with different codes and
\* different subjects; the relation is symmetric and irreflexive
MatrixAsStated(M, E) ==
  /\ DOMAIN M = {CourseYearKey(e) : e \in {x \in E : HasCourseYear(x)}}
  /\ \A K \in DOMAIN M :
       \A S \in {SectionsOf(E, K)} :
         /\ DOMAIN M[K] = {SubjKey(e) : e \in S}
         /\ \A A \in DOMAIN M[K] :
              /\ M[K][A] = {B \in DOMAIN M[K] :
                              \E e1, e2 \in S : /\ SubjKey(e1) = A /\ SubjKey(e2) = B
                                                /\ e1.code # e2.code /\ A # B}
              /\ A \notin M[K][A]
              /\ \A B \in M[K][A] : B \in DOMAIN M[K] /\ A \in M[K][B]

\* C21: the matrix that generateExamSchedule builds from the eligible
\* sections is, for each course-year key, the symmetric and irreflexive
\* relation that links two subjects exactly when the key has a section of
\* each, with different codes and different subjects; it is not changed
\* afterwards.
C21_ConflictMatrix ==
  [][/\ pc = "start" =>
          \A M \in {conflictMatrix'} : \A E \in {EligibleExams'} : MatrixAsStated(M, E)
     /\ pc # "start" => UNCHANGED conflictMatrix]_vars

\* a matrix of two course-year keys, one of which has two sections of one
\* subject and a section of another subject
C21_Witness ==
  /\ pc # "start"
  /\ Cardinality(DOMAIN conflictMatrix) = 2
  /\ \E K \in DOMAIN conflictMatrix :
       /\ \E A \in DOMAIN conflictMatrix[K] : conflictMatrix[K][A] # {}
       /\ \E e1, e2 \in SectionsOf(EligibleExams, K) :
            e1.code # e2.code /\ SubjKey(e1) = SubjKey(e2)


\* the eligible sections that lack the course or the year level
WithoutCourseYear(E) == {e \in E : ~HasCourseYear(e)}

IsOccupied(usage, day, slot, room) ==
  /\ DayKey(day) \in DOMAIN usage
  /\ SlotKey(slot) \in DOMAIN usage[DayKey(day)]
  /\ room \in usage[DayKey(day)][SlotKey(slot)]

\* result is the list of the rooms of allRooms (which are distinct), in the
\* order of allRooms, that are in an allowed building of the section, free at
\* (day, slot) and, if needsDoubleSlot and the slot is not the last one, free
\* at the following slot
RoomsAsStated(result, exam, day, slot, allRooms, usage, needsDoubleSlot) ==
  \A allowed \in {Range(getAvailableBuildings(exam.dept, exam.subjectId))} :
    \A kept \in {{i \in 1..Len(allRooms) :
                     /\ getBuildingFromRoom(allRooms[i]) \in allowed
                     /\ ~IsOccupied(usage, day, slot, allRooms[i])
                     /\ (needsDoubleSlot /\ slot + 1 < Len(TIME_SLOTS))
                          => ~IsOccupied(usage, day, slot + 1, allRooms[i])}} :
      /\ Len(result) = Cardinality(kept)
      /\ \A k \in 1..Len(result) :
           \E i \in kept : /\ result[k] = allRooms[i]
                           /\ Cardinality({j \in kept : j < i}) = k - 1

\* the cells at which the result of the Room Selector may differ between the
\* room-occupancy ledgers U and V: those whose slot, or whose following slot,
\* has another occupancy
ChangedCells(U, V) ==
  {n \in Cells :
     \E t \in {CellSlot(n), CellSlot(n) + 1} :
       /\ t < Len(TIME_SLOTS)
       /\ OccupiedAt([roomUsage |-> U], DayKey(CellDay(n)), SlotKey(t))
            # OccupiedAt([roomUsage |-> V], DayKey(CellDay(n)), SlotKey(t))}

\* C23: for every ledger of a run (the empty one at the start, at every
\* cell, and the one after each step, at every cell at which the step changed
\* the occupancy of the slot or of the following slot), every eligible section
\* and both values of needsDoubleSlot, getAvailableRooms returns the rooms of
\* the pool, in pool order, that are in an allowed building, free at the cell
\* and, for a double slot with a following slot, free at the following slot
\* (in a run of the V4 engine: its getAvailableRooms, which has no
\* needsDoubleSlot, returns the same without the look at the following slot).
C23_RoomSelector ==
  [][\A U \in {roomUsage'} : \A E \in {EligibleExams'} : \A L \in {rooms} :
       \A n \in IF pc = "start" THEN Cells ELSE ChangedCells(roomUsage, U) :
         \A e \in E :
           IF variant = "v5"
           THEN \A needs \in BOOLEAN :
                  \A result \in {getAvailableRooms(e, CellDay(n), CellSlot(n), L,
                                                    [roomUsage |-> U], needs)} :
                    RoomsAsStated(result, e, CellDay(n), CellSlot(n), L, U, needs)
           ELSE \A result \in {getAvailableRoomsV4(e, CellDay(n), CellSlot(n), L,
                                                     [roomUsage |-> U])} :
                  RoomsAsStated(result, e, CellDay(n), CellSlot(n), L, U, FALSE)]_vars

\* at some cell the Room Selector returns rooms for a 6-unit section when one
\* slot is asked for and leaves one of them out when two are asked for
C23_Witness ==
  \E n \in Cells : \E e \in EligibleExams :
    /\ is6UnitSubject(e)
    /\ CellSlot(n) + 1 < Len(TIME_SLOTS)
    /\ getAvailableRooms(e, CellDay(n), CellSlot(n), rooms, Led(State), FALSE)
         # getAvailableRooms(e, CellDay(n), CellSlot(n), rooms, Led(State), TRUE)


\* the ledger entry of a placement whose first slot is cell (day, slot)
PlacementAt(day, slot) == [day |-> DayKey(day), slot |-> SlotKey(slot)]

\* the step is a call that committed sections (of the subject of its group)
Committing ==
  /\ last'.n # last.n
  /\ roomUsage' # roomUsage \/ scheduled' # scheduled

\* the step committed subject S at the cell of its call while the ledger
\* held another cell for S
Recommitted(S) ==
  /\ Committing
  /\ S = SubjKey(exams[last'.group[1]])
  /\ S \in DOMAIN subjectScheduled
  /\ subjectScheduled[S] # PlacementAt(last'.day, last'.slot)

\* the ledger holds one cell per subject, the first slot of its latest commit
LatestPlacementKept ==
  /\ Committing =>
       /\ DOMAIN subjectScheduled' = DOMAIN subjectScheduled \cup {SubjKey(exams[last'.group[1]])}
       /\ \A S \in DOMAIN subjectScheduled' :
            subjectScheduled'[S] =
              IF S = SubjKey(exams[last'.group[1]]) THEN PlacementAt(last'.day, last'.slot)
              ELSE subjectScheduled[S]
  /\ ~Committing => UNCHANGED subjectScheduled

\* C24 as stated: the ledger holds one cell per subject, the first slot of
\* its latest commit; after a subject S committed at c1 is committed at
\* another cell c2, the conflict check of every section whose conflict set
\* holds S reports a conflict at c2 and no conflict at c1.
C24_LatestPlacementOnly ==
  [][/\ LatestPlacementKept
     /\ \A S \in DOMAIN subjectScheduled : Recommitted(S) =>
          \A led \in {[subjectScheduled |-> subjectScheduled']} :
            \A e \in {x \in EligibleExams : S \in ConflictSet(x)} :
              /\ hasConflict(e, last'.day, last'.slot, led, conflictMatrix)
              /\ \A n \in Cells : subjectScheduled[S] = PlacementAt(CellDay(n), CellSlot(n))
                   => ~hasConflict(e, CellDay(n), CellSlot(n), led, conflictMatrix)]_vars

\* C24 amended: as stated, but at c1 the conflict check reports a conflict
\* exactly if another subject of the conflict set is recorded at c1.
C24_LatestPlacementOnlyOfSubject ==
  [][/\ LatestPlacementKept
     /\ \A S \in DOMAIN subjectScheduled : Recommitted(S) =>
          \A led \in {[subjectScheduled |-> subjectScheduled']} :
            \A e \in {x \in EligibleExams : S \in ConflictSet(x)} :
              /\ hasConflict(e, last'.day, last'.slot, led, conflictMatrix)
              /\ \A n \in Cells : subjectScheduled[S] = PlacementAt(CellDay(n), CellSlot(n))
                   => (hasConflict(e, CellDay(n), CellSlot(n), led, conflictMatrix)
                        <=> \E T \in ConflictSet(e) \ {S} :
                              /\ T \in DOMAIN subjectScheduled'
                              /\ subjectScheduled'[T] = subjectScheduled[S])]_vars

\* a subject whose sections hold output entries at two cells is recorded at
\* the cell of the last call, and a section with that subject in its conflict
\* set is eligible
C24_Witness ==
  /\ last.ret /\ last.group # <<>>
  /\ \E x \in Entries :
       /\ SubjKey([subjectId |-> x.SUBJECT_ID]) = SubjKey(exams[last.group[1]])
       /\ <<x.DAY, x.SLOT>> \notin
            {<<DayKey(last.day), SlotKey(t)>> : t \in {last.slot, last.slot + 1} \cap 0..(Len(TIME_SLOTS) - 1)}
  /\ subjectScheduled[SubjKey(exams[last.group[1]])] = PlacementAt(last.day, last.slot)
  /\ \E e \in EligibleExams : SubjKey(exams[last.group[1]]) \in ConflictSet(e)


\* the rooms in which the step committed section e at cell (day, slot):
\* newly occupied there and named by the section's output entry of that slot
CommittedRooms(e, day, slot) ==
  {r \in OccupiedAt([roomUsage |-> roomUsage'], DayKey(day), SlotKey(slot)) :
     /\ r \notin OccupiedAt([roomUsage |-> roomUsage], DayKey(day), SlotKey(slot))
     /\ ScheduledKey(e, SlotKey(slot)) \in DOMAIN scheduled'
     /\ scheduled'[ScheduledKey(e, SlotKey(slot))].ROOM = r
     /\ scheduled'[ScheduledKey(e, SlotKey(slot))].DAY = DayKey(day)}

\* the conflict check of section x, with only subject S in the ledger
MatchesAt(x, S, n) ==
  hasConflict(x, CellDay(n), CellSlot(n),
              [subjectScheduled |-> (S :> subjectScheduled'[S])], conflictMatrix)

\* C25: a call that commits a 6-unit section with first slot (day, s)
\* occupies its room at (day, s) and (day, s + 1), writes an output entry for
\* both slots, and records its subject at (day, s), not at (day, s + 1); the
\* conflict check of a section whose conflict set holds that subject matches
\* it at (day, s) and at no other cell.
C25_SecondSlotKeepsPlacement ==
  [][Committing =>
       \A i \in Range(last'.group) : \A e \in {exams[i]} :
         \A R \in {CommittedRooms(e, last'.day, last'.slot)} :
           (is6UnitSubject(e) /\ R # {}) =>
             /\ last'.slot + 1 < Len(TIME_SLOTS)
             /\ R \subseteq OccupiedAt([roomUsage |-> roomUsage'], DayKey(last'.day), SlotKey(last'.slot + 1))
             /\ ScheduledKey(e, SlotKey(last'.slot + 1)) \in DOMAIN scheduled'
             /\ scheduled'[ScheduledKey(e, SlotKey(last'.slot + 1))].ROOM \in R
             /\ subjectScheduled'[SubjKey(e)] = PlacementAt(last'.day, last'.slot)
             /\ subjectScheduled'[SubjKey(e)] # PlacementAt(last'.day, last'.slot + 1)
             /\ \A x \in {y \in EligibleExams : SubjKey(e) \in ConflictSet(y)} :
                  \A n \in Cells :
                    MatchesAt(x, SubjKey(e), n)
                      <=> (CellDay(n) = last'.day /\ CellSlot(n) = last'.slot)]_vars

\* a 6-unit section was placed by the last call, its room is occupied at the
\* following slot too, and a section with its subject in its conflict set is
\* eligible
C25_Witness ==
  /\ last.ret
  /\ \E i \in Range(last.group) :
       /\ is6UnitSubject(exams[i])
       /\ last.slot + 1 < Len(TIME_SLOTS)
       /\ ScheduledKey(exams[i], SlotKey(last.slot)) \in DOMAIN scheduled
       /\ scheduled[ScheduledKey(exams[i], SlotKey(last.slot))].ROOM
            \in OccupiedAt(Led(State), DayKey(last.day), SlotKey(last.slot + 1))
       /\ subjectScheduled[SubjKey(exams[i])] = PlacementAt(last.day, last.slot)
       /\ \E x \in EligibleExams : SubjKey(exams[i]) \in ConflictSet(x)


\* the batch of group G that starts after position from
BatchOf(G, from) ==
  IF Len(G) <= maxBatchSize THEN G
  ELSE SubSeq(G, from + 1, Min(from + maxBatchSize, Len(G)))

\* the sections of sequence G that hold an output entry in out
PlacedOf(G, out) == {i \in Range(G) : exams[i].code \in PlacedCodes(out)}

\* every section of batch B holds an output entry at cell (day, slot) of out,
\* in a room of its own that was free in usage
BatchCommittedAt(B, day, slot, out, usage) ==
  /\ \A i \in Range(B) :
       /\ ScheduledKey(exams[i], SlotKey(slot)) \in DOMAIN out
       /\ out[ScheduledKey(exams[i], SlotKey(slot))].DAY = DayKey(day)
       /\ out[ScheduledKey(exams[i], SlotKey(slot))].ROOM
            \notin OccupiedAt([roomUsage |-> usage], DayKey(day), SlotKey(slot))
  /\ \A i, j \in Range(B) :
       i # j => out[ScheduledKey(exams[i], SlotKey(slot))].ROOM
                  # out[ScheduledKey(exams[j], SlotKey(slot))].ROOM

OverlapCatalog ==
  << Exam("a1", <<"A","R","C","H","1">>, BSAR, 1, SACE, 6),
     Exam("a2", <<"A","R","C","H","2">>, BSAR, 1, SACE, 6),
     Exam("a3", <<"A","R","C","H","3">>, BSAR, 1, SACE, 6),
     Exam("a4", <<"A","R","C","H","4">>, BSAR, 1, SACE, 3),
     Exam("a5", <<"A","R","C","H","5">>, BSAR, 1, SACE, 6),
     Exam("x1", <<"E","N","G","L","A","R","C","H">>, BSAR, 1, SACE, 3),
     Exam("c2", <<"C","S","2">>, BSIT, 1, CICT, 3) >>

InitOverlap == InitWith("v5", OverlapCatalog)

SpecOverlap == InitOverlap /\ [][Next]_vars

\* the (day, slot, room) triples recorded as occupied in the room ledger
OccupiedTriples ==
  {x \in (DOMAIN roomUsage) \X Range(TIME_SLOTS) \X Range(rooms) :
     x[3] \in OccupiedAt([roomUsage |-> roomUsage], x[1], x[2])}

\* the (day, slot, room) triples of the output entries
OutputTriples == {<<x.DAY, x.SLOT, x.ROOM>> : x \in Entries}

\* C27: in every state a room is recorded as occupied at (day, slot) in the
\* room ledger exactly if the output holds an entry with that day, slot and
\* room.
C27_LedgerMatchesOutput == OccupiedTriples = OutputTriples


\* the eligible sections that hold an output entry
EligiblePlaced == {e \in Range(eligible) : exams[e].code \in PlacedCodes(scheduled)}

\* C28: at the end of a run the accumulated scheduled count is the number of
\* distinct section codes in the output, and the reported unscheduled count
\* (eligible minus scheduled) is the number of eligible sections without
\* output entry.
C28_CountsMatchOutput ==
  pc = "done" =>
    /\ totalScheduled = Cardinality(PlacedCodes(scheduled))
    /\ Len(eligible) - totalScheduled = Cardinality(Range(eligible) \ EligiblePlaced)

=============================================================================
